---- MODULE Spec2Model ----
(***************************************************************************)
(* A model of webundo (src/webundo/__init__.py): the process-wide registry *)
(* waiting_threads, cancelable jobs (a threading.Timer around funcwrap),   *)
(* undoable jobs (a waiter thread in Undoable.run blocked on               *)
(* trigger_queue) and the caller threads executing cancel_job / undo_job.  *)
(* Every statement that reads or writes shared state is one step, so that  *)
(* the interleavings Python's thread switching allows are explored.        *)
(***************************************************************************)
EXTENDS Integers, Sequences, FiniteSets, TLC

\* Number of threads of control over a run: the job threads (one timer or
\* waiter thread per launched job) and the caller threads (one per cancel_job
\* or undo_job call) together.
MaxThreads == 3

\* Keys handed out by uuid.uuid4(); the i-th launch gets key i.
Keys == 1..MaxThreads

\* A key that no launch ever returned.
UnknownKeys == {0}

AllKeys == Keys \cup UnknownKeys

VARIABLES
    waiting_threads,  \* the registry: one set of keys per kind
    kind,             \* kind[k]: which launch created key k
    launch,           \* launch[k]: position of the launch_* call of key k
    timer,            \* timer[k]: the threading.Timer of cancelable job k
    obj,              \* obj[k]: the Undoable of undoable job k and its thread
    runs,             \* runs[k]: number of times func() of job k was entered
    calls             \* the cancel_job / undo_job calls, in order of invocation

vars == <<waiting_threads, kind, launch, timer, obj, runs, calls>>

----------------------------------------------------------------------------
\* Values

NoResult == [tag |-> "pending", of |-> 0]

Returned(tag) == [tag |-> tag, of |-> 0]

\* What func() of job k returns: a value that identifies the job.
FuncResult(k) == [tag |-> "value", of |-> k]

NoTimer == [pc |-> "none", finished |-> FALSE]

NoObj == [pc |-> "none", trigger_queue |-> <<>>, return_queue |-> <<>>]

\* Indices of the calls that have ended (returned or raised).
Ended == {i \in 1..Len(calls) : calls[i].pc = "done"}

\* The launch of key k has returned k to its caller.
Known(k) == IF k \in UnknownKeys THEN TRUE ELSE launch[k] = "returned"

\* Number of jobs launched so far.
NumJobs == Cardinality({k \in Keys : launch[k] # "unused"})

\* One more thread of control fits the run.
ThreadLeft == NumJobs + Len(calls) < MaxThreads

\* uuid.uuid4(): a key never used before.
FreshKey == NumJobs + 1

----------------------------------------------------------------------------
Init ==
    /\ waiting_threads = [cancelable_jobs |-> {}, undoable_jobs |-> {}]
    /\ kind = [k \in Keys |-> "none"]
    /\ launch = [k \in Keys |-> "unused"]
    /\ timer = [k \in Keys |-> NoTimer]
    /\ obj = [k \in Keys |-> NoObj]
    /\ runs = [k \in Keys |-> 0]
    /\ calls = <<>>

----------------------------------------------------------------------------
\* launch_cancelable_job

\* key = str(uuid.uuid4()); timer = threading.Timer(timeout, funcwrap);
\* timer.start()
LaunchCancelableStart ==
    /\ ThreadLeft
    /\ LET k == FreshKey IN
        /\ kind' = [kind EXCEPT ![k] = "cancelable"]
        /\ launch' = [launch EXCEPT ![k] = "started"]
        /\ timer' = [timer EXCEPT ![k] = [pc |-> "wait", finished |-> FALSE]]
    /\ UNCHANGED <<waiting_threads, obj, runs, calls>>

\* store['cancelable_jobs'][key] = timer; return key
LaunchCancelableInsert(k) ==
    /\ kind[k] = "cancelable"
    /\ launch[k] = "started"
    /\ waiting_threads' = [waiting_threads EXCEPT
                              !.cancelable_jobs = @ \cup {k}]
    /\ launch' = [launch EXCEPT ![k] = "returned"]
    /\ UNCHANGED <<kind, timer, obj, runs, calls>>

\* Timer.run: finished.wait(interval) returns, because the delay has elapsed
\* (which it may at any moment from the start of the thread on) or because
\* cancel() has set the event; funcwrap is called and enters func() unless
\* the event is set.
TimerFire(k) ==
    /\ timer[k].pc = "wait"
    /\ IF timer[k].finished
         THEN /\ timer' = [timer EXCEPT ![k].pc = "done"]
              /\ runs' = runs
         ELSE /\ timer' = [timer EXCEPT ![k].pc = "func"]
              /\ runs' = [runs EXCEPT ![k] = @ + 1]
    /\ UNCHANGED <<waiting_threads, kind, launch, obj, calls>>

\* func() returns to funcwrap.
FuncwrapFuncReturns(k) ==
    /\ timer[k].pc = "func"
    /\ timer' = [timer EXCEPT ![k].pc = "in"]
    /\ UNCHANGED <<waiting_threads, kind, launch, obj, runs, calls>>

\* func() raises: funcwrap and the timer thread end with the exception.
FuncwrapFuncRaises(k) ==
    /\ timer[k].pc = "func"
    /\ timer' = [timer EXCEPT ![k].pc = "raised"]
    /\ UNCHANGED <<waiting_threads, kind, launch, obj, runs, calls>>

\* if key in store['cancelable_jobs']:
FuncwrapIn(k) ==
    /\ timer[k].pc = "in"
    /\ IF k \in waiting_threads.cancelable_jobs
         THEN timer' = [timer EXCEPT ![k].pc = "del"]
         ELSE timer' = [timer EXCEPT ![k] = [pc |-> "done", finished |-> TRUE]]
    /\ UNCHANGED <<waiting_threads, kind, launch, obj, runs, calls>>

\* del store['cancelable_jobs'][key] (KeyError when the key has gone), then
\* Timer.run sets finished.
FuncwrapDel(k) ==
    /\ timer[k].pc = "del"
    /\ IF k \in waiting_threads.cancelable_jobs
         THEN /\ waiting_threads' = [waiting_threads EXCEPT
                                        !.cancelable_jobs = @ \ {k}]
              /\ timer' = [timer EXCEPT ![k] = [pc |-> "done", finished |-> TRUE]]
         ELSE /\ waiting_threads' = waiting_threads
              /\ timer' = [timer EXCEPT ![k].pc = "KeyError"]
    /\ UNCHANGED <<kind, launch, obj, runs, calls>>

----------------------------------------------------------------------------
\* cancel_job

\* A lookup that does not keep to the namespace of cancelable jobs.
CancelLookupAnyKind(key) ==
    key \in waiting_threads.cancelable_jobs \cup waiting_threads.undoable_jobs

\* waiting_threads['cancelable_jobs'].get(key) is a timer.
CancelLookup(key) == key \in waiting_threads.cancelable_jobs

\* The delay (cancelable) or deadline (undoable) of job k has not elapsed:
\* its thread is still in its timed wait.
Pending(k) == timer[k].pc = "wait" \/ obj[k].pc = "get"

\* A new call record; early: the call is made before the delay or deadline
\* of the job has elapsed; prior: the calls that had ended when it was made.
NewCall(op, key, wait) ==
    [op |-> op, key |-> key, pc |-> "get", result |-> NoResult, wait |-> wait,
     early |-> IF key \in Keys THEN Pending(key) ELSE FALSE,
     prior |-> Ended]

\* timer = waiting_threads['cancelable_jobs'].get(key); if timer: ...
\* return False
CancelGet(key) ==
    /\ ThreadLeft
    /\ Known(key)
    /\ LET c == NewCall("cancel", key, FALSE) IN
        IF CancelLookup(key)
          THEN calls' = Append(calls, [c EXCEPT !.pc = "cancel"])
          ELSE calls' = Append(calls, [c EXCEPT !.pc = "done",
                                                !.result = Returned("False")])
    /\ UNCHANGED <<waiting_threads, kind, launch, timer, obj, runs>>

\* timer.cancel()
CancelTimerCancel(i) ==
    /\ calls[i].pc = "cancel"
    /\ timer' = [timer EXCEPT ![calls[i].key].finished = TRUE]
    /\ calls' = [calls EXCEPT ![i].pc = "del"]
    /\ UNCHANGED <<waiting_threads, kind, launch, obj, runs>>

\* A cancel_job that empties the namespace instead of deleting its key.
CancelDelClears(i) ==
    /\ calls[i].pc = "del"
    /\ waiting_threads' = [waiting_threads EXCEPT !.cancelable_jobs = {}]
    /\ calls' = [calls EXCEPT ![i].pc = "done", ![i].result = Returned("True")]
    /\ UNCHANGED <<kind, launch, timer, obj, runs>>

\* del waiting_threads['cancelable_jobs'][key]; return True
CancelDel(i) ==
    /\ calls[i].pc = "del"
    /\ LET key == calls[i].key IN
        IF key \in waiting_threads.cancelable_jobs
          THEN /\ waiting_threads' = [waiting_threads EXCEPT
                                         !.cancelable_jobs = @ \ {key}]
               /\ calls' = [calls EXCEPT ![i].pc = "done",
                                         ![i].result = Returned("True")]
          ELSE /\ waiting_threads' = waiting_threads
               /\ calls' = [calls EXCEPT ![i].pc = "done",
                                         ![i].result = Returned("KeyError")]
    /\ UNCHANGED <<kind, launch, timer, obj, runs>>

----------------------------------------------------------------------------
\* launch_undoable_job

\* key = str(uuid.uuid4()); obj = Undoable(func, timeout);
\* thrd = threading.Thread(target=obj.run); thrd.start()
LaunchUndoableStart ==
    /\ ThreadLeft
    /\ LET k == FreshKey IN
        /\ kind' = [kind EXCEPT ![k] = "undoable"]
        /\ launch' = [launch EXCEPT ![k] = "started"]
        /\ obj' = [obj EXCEPT ![k] = [NoObj EXCEPT !.pc = "get"]]
    /\ UNCHANGED <<waiting_threads, timer, runs, calls>>

\* store['undoable_jobs'][key] = obj; return key
LaunchUndoableInsert(k) ==
    /\ kind[k] = "undoable"
    /\ launch[k] = "started"
    /\ waiting_threads' = [waiting_threads EXCEPT
                              !.undoable_jobs = @ \cup {k}]
    /\ launch' = [launch EXCEPT ![k] = "returned"]
    /\ UNCHANGED <<kind, timer, obj, runs, calls>>

\* A waiter thread that goes back to waiting for a trigger.
RunEndLoop == "get"

\* Where the waiter thread is once run() has put the result: run() returns.
RunEnd == "done"

\* self.trigger_queue.get(block=True, timeout=self.timeout) returns an item
\* ('STOP', which is true): func() is entered.
RunGetTrigger(k) ==
    /\ obj[k].pc = "get"
    /\ obj[k].trigger_queue # <<>>
    /\ obj' = [obj EXCEPT ![k].pc = "func",
                          ![k].trigger_queue = Tail(@)]
    /\ runs' = [runs EXCEPT ![k] = @ + 1]
    /\ UNCHANGED <<waiting_threads, kind, launch, timer, calls>>

\* self.trigger_queue.get(...) raises Empty: the queue is empty and the
\* deadline has elapsed (which it may at any moment from the start of the
\* thread on).
RunGetEmpty(k) ==
    /\ obj[k].pc = "get"
    /\ obj[k].trigger_queue = <<>>
    /\ obj' = [obj EXCEPT ![k].pc = "except"]
    /\ UNCHANGED <<waiting_threads, kind, launch, timer, runs, calls>>

\* A run() that puts the result when func() is still running.
RunPutResultEarly(k) ==
    /\ obj[k].pc = "func"
    /\ obj[k].return_queue = <<>>
    /\ obj' = [obj EXCEPT ![k].return_queue = Append(@, FuncResult(k))]
    /\ UNCHANGED <<waiting_threads, kind, launch, timer, runs, calls>>

\* self.return_queue.put(self.func()): func() returns and its value is put.
RunPutResult(k) ==
    /\ obj[k].pc = "func"
    /\ obj' = [obj EXCEPT ![k].pc = RunEnd,
                          ![k].return_queue = Append(@, FuncResult(k))]
    /\ UNCHANGED <<waiting_threads, kind, launch, timer, runs, calls>>

\* func() raises (an exception that is not Empty): run() and the waiter
\* thread end with it, nothing is put.
RunFuncRaises(k) ==
    /\ obj[k].pc = "func"
    /\ obj' = [obj EXCEPT ![k].pc = "raised"]
    /\ UNCHANGED <<waiting_threads, kind, launch, timer, runs, calls>>

\* A timeout path that also puts a value in the result slot, to wake up a
\* caller that may be waiting.
RunDelPutsResult(k) ==
    /\ obj[k].pc = "except"
    /\ waiting_threads' = [waiting_threads EXCEPT !.undoable_jobs = @ \ {k}]
    /\ obj' = [obj EXCEPT ![k].pc = "timedout",
                          ![k].return_queue = Append(@, FuncResult(k))]
    /\ UNCHANGED <<kind, launch, timer, runs, calls>>

\* except Empty: del store['undoable_jobs'][key] (KeyError when the key is
\* not there)
RunDel(k) ==
    /\ obj[k].pc = "except"
    /\ IF k \in waiting_threads.undoable_jobs
         THEN /\ waiting_threads' = [waiting_threads EXCEPT
                                        !.undoable_jobs = @ \ {k}]
              /\ obj' = [obj EXCEPT ![k].pc = "timedout"]
         ELSE /\ waiting_threads' = waiting_threads
              /\ obj' = [obj EXCEPT ![k].pc = "KeyError"]
    /\ UNCHANGED <<kind, launch, timer, runs, calls>>

----------------------------------------------------------------------------
\* undo_job

\* waiting_threads['undoable_jobs'].get(key) is an Undoable.
UndoLookup(key) == key \in waiting_threads.undoable_jobs

\* obj = waiting_threads['undoable_jobs'].get(key); if not obj: raise
\* ThreadLostError.  wait: the call was given a timeout.
UndoGet(key, wait) ==
    /\ ThreadLeft
    /\ Known(key)
    /\ LET c == NewCall("undo", key, wait) IN
        IF UndoLookup(key)
          THEN calls' = Append(calls, [c EXCEPT !.pc = "put"])
          ELSE calls' = Append(calls, [c EXCEPT !.pc = "done",
                                        !.result = Returned("ThreadLostError")])
    /\ UNCHANGED <<waiting_threads, kind, launch, timer, obj, runs>>

\* obj.undo(): self.trigger_queue.put('STOP', block=True); the queue is
\* unbounded, the put does not block.
UndoPut(i) ==
    /\ calls[i].pc = "put"
    /\ obj' = [obj EXCEPT ![calls[i].key].trigger_queue = Append(@, "STOP")]
    /\ calls' = [calls EXCEPT ![i].pc = "wait"]
    /\ UNCHANGED <<waiting_threads, kind, launch, timer, runs>>

\* return obj.return_queue.get(block=True, timeout=timeout): an item is there.
UndoReturn(i) ==
    /\ calls[i].pc = "wait"
    /\ obj[calls[i].key].return_queue # <<>>
    /\ calls' = [calls EXCEPT ![i].pc = "done",
                              ![i].result = Head(obj[calls[i].key].return_queue)]
    /\ obj' = [obj EXCEPT ![calls[i].key].return_queue = Tail(@)]
    /\ UNCHANGED <<waiting_threads, kind, launch, timer, runs>>

\* A wait timeout reported as a lost job.
WaitTimeoutAsLost == Returned("ThreadLostError")

\* What undo_job ends with when the wait for the result times out: the
\* Queue.Empty raised by return_queue.get, which undo_job does not catch.
WaitTimeout == Returned("Empty")

\* obj.return_queue.get(block=True, timeout=timeout) raises Empty: a timeout
\* was given, it has passed and the queue is empty.
UndoWaitEmpty(i) ==
    /\ calls[i].pc = "wait"
    /\ calls[i].wait
    /\ obj[calls[i].key].return_queue = <<>>
    /\ calls' = [calls EXCEPT ![i].pc = "done", ![i].result = WaitTimeout]
    /\ UNCHANGED <<waiting_threads, kind, launch, timer, obj, runs>>

----------------------------------------------------------------------------
Next ==
    \/ LaunchCancelableStart
    \/ LaunchUndoableStart
    \/ \E k \in Keys : LaunchCancelableInsert(k)
    \/ \E k \in Keys : LaunchUndoableInsert(k)
    \/ \E k \in Keys : TimerFire(k)
    \/ \E k \in Keys : FuncwrapFuncReturns(k)
    \/ \E k \in Keys : FuncwrapFuncRaises(k)
    \/ \E k \in Keys : FuncwrapIn(k)
    \/ \E k \in Keys : FuncwrapDel(k)
    \/ \E k \in Keys : RunGetTrigger(k)
    \/ \E k \in Keys : RunGetEmpty(k)
    \/ \E k \in Keys : RunPutResult(k)
    \/ \E k \in Keys : RunFuncRaises(k)
    \/ \E k \in Keys : RunDel(k)
    \/ \E key \in AllKeys : CancelGet(key)
    \/ \E i \in 1..Len(calls) : CancelTimerCancel(i)
    \/ \E i \in 1..Len(calls) : CancelDel(i)
    \/ \E key \in AllKeys, wait \in BOOLEAN : UndoGet(key, wait)
    \/ \E i \in 1..Len(calls) : UndoPut(i)
    \/ \E i \in 1..Len(calls) : UndoReturn(i)
    \/ \E i \in 1..Len(calls) : UndoWaitEmpty(i)

Spec == Init /\ [][Next]_vars

----------------------------------------------------------------------------
\* Vocabulary of the properties

Cancelables == {k \in Keys : kind[k] = "cancelable"}

Undoables == {k \in Keys : kind[k] = "undoable"}

\* The cancel_job calls made with key k.
CancelCalls(k) == {i \in 1..Len(calls) : calls[i].op = "cancel" /\ calls[i].key = k}

\* The undo_job calls made with key k.
UndoCalls(k) == {i \in 1..Len(calls) : calls[i].op = "undo" /\ calls[i].key = k}

\* Call i has ended with this outcome.
EndedWith(i, tag) == calls[i].pc = "done" /\ calls[i].result.tag = tag

\* Call i has not ended with anything but this outcome.
OnlyEndsWith(i, tag) == calls[i].pc = "done" => calls[i].result.tag = tag

\* The waiter thread of undoable job k has taken the timeout path (Empty was
\* raised in run()).
TimedOut(k) == obj[k].pc \in {"except", "timedout", "KeyError"}

\* undo_job call i blocks for ever: it waits without timeout on an empty
\* return_queue, and the waiter thread has timed out or has ended after
\* putting its one result, so nothing will be put any more.
BlockedForEver(i) ==
    /\ calls[i].pc = "wait"
    /\ ~calls[i].wait
    /\ obj[calls[i].key].return_queue = <<>>
    /\ obj[calls[i].key].pc \in {"except", "timedout", "KeyError", "done"}

----------------------------------------------------------------------------
\* Properties

\* C1: a cancel_job call made with the key of a cancelable job before the
\* job's delay has elapsed keeps the action from ever executing and returns
\* True; every cancel_job call on the key made after it has ended returns
\* False, and True is returned at most once for the key.
C1_CancelBeforeDelay ==
    \A k \in Cancelables : \A i \in CancelCalls(k) :
        calls[i].early =>
            /\ runs[k] = 0
            /\ OnlyEndsWith(i, "True")
            /\ \A j \in CancelCalls(k) : i \in calls[j].prior => EndedWith(j, "False")
            /\ Cardinality({j \in CancelCalls(k) : EndedWith(j, "True")}) <= 1

\* C2: a cancel_job call made once the delay has elapsed and the action has
\* begun (it is running or has finished) returns False, and the action has
\* executed exactly once.
C2_CancelAfterFire ==
    \A k \in Cancelables : \A i \in CancelCalls(k) :
        (~calls[i].early /\ runs[k] > 0) =>
            /\ EndedWith(i, "False")
            /\ runs[k] = 1

\* C3: of two cancel_job calls on the same cancelable key that overlap (the
\* first has not ended when the second is made), once both have ended each has
\* returned True or False, exactly one of them True, and the action has run
\* at most once.
C3_ConcurrentCancel ==
    \A k \in Cancelables : \A i, j \in CancelCalls(k) :
        (i < j /\ i \notin calls[j].prior) =>
            /\ runs[k] <= 1
            /\ (calls[i].pc = "done" /\ calls[j].pc = "done") =>
                  /\ {calls[i].result.tag, calls[j].result.tag} \subseteq {"True", "False"}
                  /\ EndedWith(i, "True") # EndedWith(j, "True")

\* C4: an undo_job call (without wait timeout) made with the key of an
\* undoable job before the deadline has elapsed does not block for ever, and
\* when it ends it returns the value of the action, which has executed
\* exactly once.
C4_UndoBeforeDeadline ==
    \A k \in Undoables : \A i \in UndoCalls(k) :
        (calls[i].early /\ ~calls[i].wait) =>
            /\ ~BlockedForEver(i)
            /\ runs[k] <= 1
            /\ calls[i].pc = "done" => (calls[i].result = FuncResult(k) /\ runs[k] = 1)

\* C5: an undo_job call without wait timeout on an unknown key, or on the key
\* of an undoable job that had timed out when the call was made, ends by
\* raising ThreadLostError: it never blocks for ever, and the action is not
\* run.
C5_UndoLostNeverHangs ==
    \A i \in 1..Len(calls) :
        LET k == calls[i].key IN
        (/\ calls[i].op = "undo"
         /\ ~calls[i].wait
         /\ IF k \in UnknownKeys THEN TRUE
            ELSE kind[k] = "undoable" /\ ~calls[i].early /\ TimedOut(k)) =>
            /\ ~BlockedForEver(i)
            /\ OnlyEndsWith(i, "ThreadLostError")
            /\ k \in Keys => runs[k] = 0

\* C6: for an undoable job exactly one of {the action runs, the entry is
\* discarded} happens: no trigger is put on an entry whose waiter has timed
\* out, and a waiter that has timed out holds no trigger and has not run the
\* action.
C6_UndoDeadlineRace ==
    \A k \in Undoables :
        TimedOut(k) =>
            /\ obj[k].trigger_queue = <<>>
            /\ runs[k] = 0
            /\ \A i \in UndoCalls(k) : calls[i].pc \notin {"put", "wait"}

\* C7: of the undo_job calls on one undoable key, at most one obtains the
\* result; once one has, every other one ends with ThreadLostError, and none
\* blocks for ever.
C7_OneUndoWins ==
    \A k \in Undoables : \A i, j \in UndoCalls(k) :
        (i # j /\ EndedWith(i, "value")) =>
            /\ ~EndedWith(j, "value")
            /\ ~BlockedForEver(j)
            /\ OnlyEndsWith(j, "ThreadLostError")

\* C8: the action of a job, of either kind, is executed at most once.
C8_AtMostOnce == \A k \in Keys : runs[k] <= 1

\* An undoable job has run its action and ended, with a second trigger put on
\* it by a repeated undo_job call.
C8_Witness ==
    \E k \in Undoables :
        /\ runs[k] = 1
        /\ obj[k].pc = "done"
        /\ obj[k].trigger_queue # <<>>
        /\ Cardinality(UndoCalls(k)) >= 2

\* C9: when no undo_job call is made on an undoable job and its deadline has
\* elapsed, the waiter thread ends having removed the job's entry and without
\* running the action; once the launch has returned too, the registry does not
\* hold the key.
C9_TimeoutDiscards ==
    \A k \in Undoables :
        (UndoCalls(k) = {} /\ obj[k].pc \in {"timedout", "KeyError"}) =>
            /\ obj[k].pc = "timedout"
            /\ runs[k] = 0
            /\ launch[k] = "returned" => k \notin waiting_threads.undoable_jobs

\* A call whose key was returned by the launch of the other kind.
CrossKind(c) ==
    /\ c.key \in Keys
    /\ \/ c.op = "cancel" /\ kind[c.key] = "undoable"
       \/ c.op = "undo" /\ kind[c.key] = "cancelable"

\* No key is in both namespaces, and a call made with a key of the other kind
\* has ended: cancel_job with False, undo_job with ThreadLostError.
C10_Missed ==
    /\ waiting_threads.cancelable_jobs \cap waiting_threads.undoable_jobs = {}
    /\ \A i \in 1..Len(calls) :
        CrossKind(calls[i]) =>
            IF calls[i].op = "cancel"
              THEN EndedWith(i, "False")
              ELSE EndedWith(i, "ThreadLostError")

\* A step in which a call is made with a key of the other kind changes neither
\* the registry nor the timer or the Undoable (queues and waiter) of the key.
C10_Untouched ==
    (Len(calls') = Len(calls) + 1 /\ CrossKind(calls'[Len(calls')])) =>
        /\ waiting_threads' = waiting_threads
        /\ timer' = timer
        /\ obj' = obj
        /\ runs' = runs

\* C10: the kinds are disjoint namespaces: no key is in both; cancel_job with
\* the key of an undoable job returns False and undo_job with the key of a
\* cancelable job raises ThreadLostError, each leaving the entry, the timer
\* and the waiter of the job as they were.
C10_DisjointNamespaces == [](C10_Missed) /\ [][C10_Untouched]_vars

\* cancel_job has returned False on the key of an undoable job that is still
\* registered, its waiter still waiting for a trigger.
C10_Witness ==
    \E k \in Undoables : \E i \in CancelCalls(k) :
        /\ EndedWith(i, "False")
        /\ k \in waiting_threads.undoable_jobs
        /\ obj[k].pc = "get"

\* undo_job call i waits without timeout for the result of an action that has
\* raised: the waiter thread has ended with the exception and has put nothing.
BlockedOnFailure(i) ==
    /\ calls[i].pc = "wait"
    /\ ~calls[i].wait
    /\ obj[calls[i].key].pc = "raised"
    /\ obj[calls[i].key].return_queue = <<>>

\* C11: when the action of an undoable job raises after being triggered, the
\* undo_job caller awaiting the result ends with that failure: it is not left
\* blocked for ever on the result slot.
C11_FailurePropagates ==
    \A k \in Undoables : \A i \in UndoCalls(k) : ~BlockedOnFailure(i)

\* The trigger of undoable job k has been put in time: the waiter thread has
\* it in its queue or has received it and is running the action.
Triggered(k) ==
    \/ obj[k].pc = "func"
    \/ obj[k].pc = "get" /\ obj[k].trigger_queue # <<>>

\* C12: when an undo_job call given a wait timeout has triggered the job and
\* gives up before the result is there, it ends with the result-wait-timeout
\* outcome (Empty, not ThreadLostError), and the step changes nothing of the
\* job: the waiter goes on to run the action to completion.
C12_WaitTimeout ==
    [][\A i \in 1..Len(calls) :
          (/\ calls[i].pc = "wait"
           /\ calls'[i].pc = "done"
           /\ Triggered(calls[i].key)
           /\ obj[calls[i].key].return_queue = <<>>) =>
              /\ calls'[i].result.tag = "Empty"
              /\ calls'[i].result.tag # "ThreadLostError"
              /\ obj' = obj
              /\ runs' = runs
              /\ waiting_threads' = waiting_threads]_vars

\* An undo_job call has given up waiting, and the action it triggered has run
\* to completion afterwards: its result lies in the result slot.
C12_Witness ==
    \E k \in Undoables : \E i \in UndoCalls(k) :
        /\ EndedWith(i, "Empty")
        /\ runs[k] = 1
        /\ obj[k].pc = "done"
        /\ obj[k].return_queue = <<FuncResult(k)>>

\* C13: a cancelable entry is removed exactly once: no delete of the key finds
\* it absent (neither in cancel_job nor in funcwrap), and once the fire path
\* has run the action and finished its removal the key is not in the
\* registry again.
C13_CancelableRemovedOnce ==
    \A k \in Cancelables :
        /\ timer[k].pc # "KeyError"
        /\ \A i \in CancelCalls(k) : ~EndedWith(i, "KeyError")
        /\ (timer[k].pc = "done" /\ runs[k] = 1) =>
              k \notin waiting_threads.cancelable_jobs

\* C14: an undoable entry is removed exactly once: the delete of the timeout
\* path finds the key, and once a triggered action has run to completion the
\* key is not in the undoable namespace.
C14_UndoableRemovedOnce ==
    \A k \in Undoables :
        /\ obj[k].pc # "KeyError"
        /\ obj[k].pc = "done" => k \notin waiting_threads.undoable_jobs

\* C15: for a cancelable job that is never cancelled, once the action has run
\* (returning or raising), the timer thread has ended and the launch has
\* returned, the registry holds no entry for the job.
C15_FiredEntryRemoved ==
    \A k \in Cancelables :
        (/\ CancelCalls(k) = {}
         /\ runs[k] = 1
         /\ timer[k].pc \in {"done", "raised", "KeyError"}
         /\ launch[k] = "returned") =>
            k \notin waiting_threads.cancelable_jobs

\* Number of values written to the result slot of undoable job k so far:
\* those still in return_queue and those undo_job calls have taken out of it.
Written(k) ==
    Len(obj[k].return_queue)
        + Cardinality({i \in UndoCalls(k) : EndedWith(i, "value")})

\* C16: the result slot of an undoable job is written at most once, and only
\* when the waiter thread has received a trigger put by an undo_job call and
\* has run the action; it is not written on the timeout path.
C16_ResultWrittenOnce ==
    \A k \in Undoables :
        /\ Written(k) <= 1
        /\ Written(k) = 1 =>
              /\ runs[k] = 1
              /\ obj[k].pc = "done"
              /\ \E i \in UndoCalls(k) : calls[i].pc \in {"wait", "done"}
        /\ TimedOut(k) => Written(k) = 0

\* The result of a triggered action lies in the result slot, not yet taken.
C16_Witness ==
    \E k \in Undoables :
        /\ obj[k].return_queue = <<FuncResult(k)>>
        /\ runs[k] = 1

\* C17: an undo_job call returns a result only when the trigger has been
\* received and the action has run to completion; the result is the value of
\* the action of that job.
C17_ResultAfterCompletion ==
    \A k \in Undoables : \A i \in UndoCalls(k) :
        EndedWith(i, "value") =>
            /\ runs[k] = 1
            /\ obj[k].pc = "done"
            /\ calls[i].result = FuncResult(k)

\* An undo_job call has returned the value of the action.
C17_Witness ==
    \E k \in Undoables : \E i \in UndoCalls(k) :
        /\ EndedWith(i, "value")
        /\ obj[k].trigger_queue = <<>>

\* C18: while the launch of a job has not inserted the entry, the job's thread
\* is still in its timed wait; so no job whose thread has ended gets an entry
\* inserted afterwards.
C18_InsertBeforeThread ==
    \A k \in Keys :
        launch[k] = "started" =>
            IF kind[k] = "cancelable" THEN timer[k].pc = "wait"
                                      ELSE obj[k].pc = "get"

\* C19: no registry operation fails on an absent key: no cancel_job call ends
\* with KeyError, and neither the timer thread (del in funcwrap) nor the waiter
\* thread (del on the timeout path) does.
C19_NoKeyError ==
    /\ \A i \in 1..Len(calls) : ~EndedWith(i, "KeyError")
    /\ \A k \in Keys : timer[k].pc # "KeyError" /\ obj[k].pc # "KeyError"

\* What the program holds of job k: its registry entries, its timer, its
\* Undoable (trigger, result slot, waiter) and its action count.
JobState(k) ==
    <<k \in waiting_threads.cancelable_jobs, k \in waiting_threads.undoable_jobs,
      kind[k], launch[k], timer[k], obj[k], runs[k]>>

\* C20: every step (of cancel_job, undo_job, a fire or a timeout) changes the
\* state of at most one job: the entries, status and result slots of every
\* other key are left as they were, in both namespaces.
C20_OtherJobsUntouched ==
    [][\E k \in Keys : \A j \in Keys \ {k} : JobState(j)' = JobState(j)]_vars

\* cancel_job has removed the entry of one cancelable job while another
\* cancelable job is still registered, its timer waiting.
C20_Witness ==
    \E k, j \in Cancelables :
        /\ k # j
        /\ \E i \in CancelCalls(k) : EndedWith(i, "True")
        /\ k \notin waiting_threads.cancelable_jobs
        /\ j \in waiting_threads.cancelable_jobs
        /\ timer[j].pc = "wait"

====
